---- MODULE Spec2Model ----
(***************************************************************************)
(* Model of the Quiver MCP server: the response shaper (response-utils),   *)
(* the upstream client, the tool registry and the two dispatch layers      *)
(* (stdio and HTTP).                                                       *)
(*                                                                         *)
(* JSON values are tagged records:                                         *)
(*   [t |-> "null"], [t |-> "undef"], [t |-> "num", n |-> 3],              *)
(*   [t |-> "str", s |-> text], [t |-> "arr", items |-> <<...>>],          *)
(*   [t |-> "obj", kv |-> << <<key, value>>, ... >>]  (own enumerable      *)
(*   properties in insertion order), [t |-> "fn", name |-> key] (a method  *)
(*   inherited from Object.prototype).                                     *)
(* A text (JS string) is a sequence of tokens; a token is a TLA+ string    *)
(* standing for one or more characters.  The characters the code inspects  *)
(* (comma, double quote) are always tokens of their own.                   *)
(* An optional property is a set: {} when absent, {v} when present.        *)
(***************************************************************************)
EXTENDS Integers, Sequences, FiniteSets, TLC

VARIABLES pc, request, tool, args, transport, requests, upstream, outcome, response, options, locals, shaped, reply

vars == <<pc, request, tool, args, transport, requests, upstream, outcome, response, options, locals, shaped, reply>>

----------------------------------------------------------------------------
(* Bounds of the model *)

MaxLen == 2

MaxItems == 6

MaxPage == 3

MaxPageSize == 3

MaxLimit == 4

(* Program constants *)

SampleSize == 5

DefaultPageSize == 50

TimeoutMs == 30000

----------------------------------------------------------------------------
(* Optional values and JS truthiness *)

None == {}

Some(v) == {v}

The(o) == CHOOSE v \in o : TRUE

Min(a, b) == IF a < b THEN a ELSE b

\* options.x || d for a numeric option: absent and 0 are both falsy
OrNum(o, d) == IF o = None \/ The(o) = 0 THEN d ELSE The(o)

\* truthiness of a numeric option
TruthyNum(o) == o # None /\ The(o) # 0

\* options.x || d for a non-empty string option
OrStr(o, d) == IF o = None THEN d ELSE The(o)

----------------------------------------------------------------------------
(* JSON values *)

Null == [t |-> "null"]

Undefined == [t |-> "undef"]

Num(n) == [t |-> "num", n |-> n]

Str(s) == [t |-> "str", s |-> s]

Arr(items) == [t |-> "arr", items |-> items]

Obj(kv) == [t |-> "obj", kv |-> kv]

Fn(name) == [t |-> "fn", name |-> name]

\* a thrown exception, as the outcome of a call
Thrown(msg) == [t |-> "throw", msg |-> msg]

IsThrown(v) == "t" \in DOMAIN v /\ v.t = "throw"

\* Array.isArray(v)
IsArray(v) == v.t = "arr"

\* typeof v === 'object' && v !== null   (the element universe has no nested arrays)
IsObject(v) == v.t = "obj"

\* JS falsiness of a value
Falsy(v) ==
  \/ v.t \in {"null", "undef"}
  \/ (v.t = "num" /\ v.n = 0)
  \/ (v.t = "str" /\ v.s = <<>>)

\* properties every plain object inherits from Object.prototype
ProtoKeys == {"toString", "constructor"}

\* Object.keys(o): own keys in insertion order
ObjectKeys(o) == [i \in 1..Len(o.kv) |-> o.kv[i][1]]

OwnKeySet(o) == {o.kv[i][1] : i \in 1..Len(o.kv)}

\* key in o   (own or inherited)
HasProp(o, key) == key \in OwnKeySet(o) \/ key \in ProtoKeys

\* o[key] for an object o
GetProp(o, key) ==
  IF key \in OwnKeySet(o)
    THEN o.kv[CHOOSE i \in 1..Len(o.kv) : o.kv[i][1] = key][2]
    ELSE IF key \in ProtoKeys THEN Fn(key) ELSE Undefined

\* o[key] = value: an existing key keeps its place, a new key is appended
SetProp(o, key, value) ==
  IF key \in OwnKeySet(o)
    THEN Obj([i \in 1..Len(o.kv) |-> IF o.kv[i][1] = key THEN <<key, value>> ELSE o.kv[i]])
    ELSE Obj(Append(o.kv, <<key, value>>))

\* item[key] for any array element: null and undefined throw a TypeError,
\* numbers and strings have no such property
ItemProp(item, key) ==
  CASE item.t \in {"null", "undef"} -> Thrown(<<"Cannot read properties of ", item.t>>)
    [] item.t = "obj" -> GetProp(item, key)
    [] OTHER -> Undefined

----------------------------------------------------------------------------
(* Texts *)

RECURSIVE JoinText(_, _)
\* parts.join(sep) for a sequence of texts
JoinText(parts, sep) ==
  IF Len(parts) = 0 THEN <<>>
  ELSE IF Len(parts) = 1 THEN parts[1]
  ELSE parts[1] \o sep \o JoinText(Tail(parts), sep)

RECURSIVE Render(_)
\* the characters of a text, as one string
Render(text) == IF text = <<>> THEN "" ELSE Head(text) \o Render(Tail(text))

\* String(v)
StringOf(v) ==
  CASE v.t = "num" -> <<ToString(v.n)>>
    [] v.t = "str" -> v.s
    [] v.t = "null" -> <<"null">>
    [] v.t = "undef" -> <<"undefined">>
    [] v.t = "obj" -> <<"[object Object]">>
    [] v.t = "fn" -> <<"function ", v.name, "() { [native code] }">>
    [] OTHER -> <<"[array]">>

\* the text of a string literal in JSON: quotes and backslashes escaped
QuoteJSON(s) ==
  <<"\"">> \o
  [i \in 1..Len(s) |-> IF s[i] = "\"" THEN "\\\"" ELSE IF s[i] = "\\" THEN "\\\\" ELSE s[i]]
  \o <<"\"">>

\* JSON.stringify leaves out object members and nulls array elements of these
Unserializable(v) == v.t \in {"undef", "fn"}

RECURSIVE StringifyText(_)
\* the text JSON.stringify produces for a serializable value
StringifyText(v) ==
  CASE v.t = "null" -> <<"null">>
    [] v.t = "num" -> <<ToString(v.n)>>
    [] v.t = "str" -> QuoteJSON(v.s)
    [] v.t = "arr" ->
         <<"[">> \o
         JoinText([i \in 1..Len(v.items) |->
                     IF Unserializable(v.items[i]) THEN <<"null">>
                     ELSE StringifyText(v.items[i])], <<",">>)
         \o <<"]">>
    [] v.t = "obj" ->
         LET keep == {i \in 1..Len(v.kv) : ~Unserializable(v.kv[i][2])}
             idx == [j \in 1..Cardinality(keep) |->
                       CHOOSE i \in keep : Cardinality({k \in keep : k < i}) = j - 1]
         IN <<"{">> \o
            JoinText([j \in 1..Cardinality(keep) |->
                        QuoteJSON(<<v.kv[idx[j]][1]>>) \o <<":">> \o StringifyText(v.kv[idx[j]][2])],
                     <<",">>)
            \o <<"}">>
    [] OTHER -> <<"undefined">>

\* JSON.stringify(v): a string, or undefined for undefined and functions
JSONStringify(v) == IF Unserializable(v) THEN Undefined ELSE Str(StringifyText(v))

----------------------------------------------------------------------------
(* response-utils: the response shaper *)

\* response.error is truthy
HasError(r) == "error" \in DOMAIN r /\ r.error # <<>>

\* response.data
DataOf(r) == IF "data" \in DOMAIN r THEN r.data ELSE Undefined

RECURSIVE SelectedOf(_, _, _)
\* the forEach of selectFields: selected[field] = item[field] for each field in item
SelectedOf(item, fields, selected) ==
  IF fields = <<>> THEN selected
  ELSE SelectedOf(item, Tail(fields),
                  IF HasProp(item, Head(fields))
                    THEN SetProp(selected, Head(fields), GetProp(item, Head(fields)))
                    ELSE selected)

\* the map callback of selectFields
SelectItem(item, fields) ==
  IF ~IsObject(item) THEN item
  ELSE LET hasAnyField == \E i \in 1..Len(fields) : HasProp(item, fields[i])
       IN IF hasAnyField THEN SelectedOf(item, fields, Obj(<<>>)) ELSE item

selectFields(data, fields) ==
  IF ~IsArray(data) \/ Len(fields) = 0 THEN data
  ELSE Arr([i \in 1..Len(data.items) |-> SelectItem(data.items[i], fields)])

\* a wrong slice: the end index is taken as inclusive
SliceInclusive(s, a, b) == SubSeq(s, a + 1, Min(b + 1, Len(s)))

\* s.slice(a, b) for 0 <= a and 0 <= b
Slice(s, a, b) == SubSeq(s, a + 1, Min(b, Len(s)))

\* a wrong rounding: Math.floor in place of Math.ceil
FloorDiv(n, d) == n \div d

\* Math.ceil(n / d) for n >= 0 and d > 0
CeilDiv(n, d) == (n + d - 1) \div d

\* a wrong truncation: one element short of the limit
LimitedDataOneShort(data, opts) ==
  IF TruthyNum(opts.limit) /\ The(opts.limit) > 0
    THEN Arr(Slice(data.items, 0, The(opts.limit) - 1))
    ELSE data

\* limitedData of applyPagination
LimitedData(data, opts) ==
  IF TruthyNum(opts.limit) /\ The(opts.limit) > 0
    THEN Arr(Slice(data.items, 0, The(opts.limit)))
    ELSE data

\* a wrong block for data that is not an array: nothing is counted
EmptyPagination ==
  [current_page |-> 1, page_size |-> 1, total_items |-> 0,
   total_pages |-> 0, has_next |-> FALSE, has_previous |-> FALSE]

\* the pagination block applyPagination returns for data that is not an array
TrivialPagination ==
  [current_page |-> 1, page_size |-> 1, total_items |-> 1,
   total_pages |-> 1, has_next |-> FALSE, has_previous |-> FALSE]

\* a wrong default: an absent page_size is taken from the limit
PageSizeFromLimit(opts) ==
  IF TruthyNum(opts.page_size) THEN The(opts.page_size) ELSE OrNum(opts.limit, DefaultPageSize)

\* page_size of applyPagination
PageSizeOf(opts) == OrNum(opts.page_size, DefaultPageSize)

\* a wrong start: pages counted from 0
StartIndexZeroBased(page, page_size) == page * page_size

\* start_index of applyPagination
StartIndex(page, page_size) == (page - 1) * page_size

applyPagination(data, opts) ==
  IF ~IsArray(data)
    THEN [data |-> data, pagination |-> TrivialPagination]
    ELSE LET page == OrNum(opts.page, 1)
             page_size == PageSizeOf(opts)
             limitedData == LimitedData(data, opts)
             total_items == Len(limitedData.items)
             total_pages == CeilDiv(total_items, page_size)
             start_index == StartIndex(page, page_size)
             end_index == start_index + page_size
         IN [data |-> Arr(Slice(limitedData.items, start_index, end_index)),
             pagination |-> [current_page |-> page, page_size |-> page_size,
                             total_items |-> total_items, total_pages |-> total_pages,
                             has_next |-> page < total_pages, has_previous |-> page > 1]]

\* a wrong summary: count is the size of the sample, not of the array
createSummaryCountsSample(data) ==
  IF ~IsArray(data)
    THEN Obj(<< <<"type", Str(<<"object">>)>>, <<"preview", data>> >>)
  ELSE LET valid == {i \in 1..Len(data.items) : IsObject(data.items[i])}
           firstValidObject == data.items[CHOOSE i \in valid : \A j \in valid : i <= j]
           keys == IF valid = {} THEN <<>> ELSE ObjectKeys(firstValidObject)
           sample == Slice(data.items, 0, Min(SampleSize, Len(data.items)))
       IN Obj(<< <<"type", Str(<<"array">>)>>,
                 <<"count", Num(Len(sample))>>,
                 <<"sample", Arr(sample)>>,
                 <<"fields", Arr([i \in 1..Len(keys) |-> Str(<<keys[i]>>)])>> >>)

createSummary(data) ==
  IF ~IsArray(data)
    THEN Obj(<< <<"type", Str(<<"object">>)>>, <<"preview", data>> >>)
  ELSE IF Len(data.items) = 0
    THEN Obj(<< <<"type", Str(<<"array">>)>>, <<"count", Num(0)>>,
                <<"sample", Arr(<<>>)>>, <<"fields", Arr(<<>>)>> >>)
  ELSE LET valid == {i \in 1..Len(data.items) : IsObject(data.items[i])}
           firstValidObject == data.items[CHOOSE i \in valid : \A j \in valid : i <= j]
           keys == IF valid = {} THEN <<>> ELSE ObjectKeys(firstValidObject)
       IN Obj(<< <<"type", Str(<<"array">>)>>,
                 <<"count", Num(Len(data.items))>>,
                 <<"sample", Arr(Slice(data.items, 0, Min(SampleSize, Len(data.items))))>>,
                 <<"fields", Arr([i \in 1..Len(keys) |-> Str(<<keys[i]>>)])>> >>)

\* a wrong rendering: detailed data is serialised like compact data
formatAsJSONStringifies(data, mode) ==
  IF mode = "summary" THEN createSummary(data) ELSE JSONStringify(data)

formatAsJSON(data, mode) ==
  CASE mode = "compact" -> JSONStringify(data)
    [] mode = "summary" -> createSummary(data)
    [] OTHER -> data

\* String(item[header] || '')
CellText(item, header) ==
  LET value == ItemProp(item, header)
  IN IF Falsy(value) THEN <<>> ELSE StringOf(value)

\* an element whose property read throws once the header list is not empty
RowThrows(items, headers) ==
  Len(headers) > 0 /\ \E i \in 1..Len(items) : items[i].t \in {"null", "undef"}

formatAsTable(data) ==
  IF ~IsArray(data) \/ Len(data.items) = 0 THEN Str(<<"No data available">>)
  ELSE LET items == data.items
           firstItem == items[1]
       IN IF ~IsObject(firstItem)
            THEN Str(JoinText([i \in 1..Len(items) |-> <<"| ">> \o StringOf(items[i]) \o <<" |">>],
                              <<"\n">>))
            ELSE LET headers == ObjectKeys(firstItem)
                     headerRow == <<"| ">> \o JoinText([h \in 1..Len(headers) |-> <<headers[h]>>],
                                                       <<" | ">>) \o <<" |">>
                     separatorRow == <<"| ">> \o JoinText([h \in 1..Len(headers) |-> <<"---">>],
                                                          <<" | ">>) \o <<" |">>
                     dataRows == [i \in 1..Len(items) |->
                                    <<"| ">> \o
                                    JoinText([h \in 1..Len(headers) |-> CellText(items[i], headers[h])],
                                             <<" | ">>)
                                    \o <<" |">>]
                 IN IF RowThrows(items, headers)
                      THEN Thrown(<<"TypeError">>)
                      ELSE Str(JoinText(<<headerRow, separatorRow>> \o dataRows, <<"\n">>))

\* text.includes(ch)
Includes(text, ch) == \E i \in 1..Len(text) : text[i] = ch

\* the CSV escaping of one value's text
CsvValue(text) ==
  IF Includes(text, ",") \/ Includes(text, "\"")
    THEN <<"\"">> \o [i \in 1..Len(text) |-> IF text[i] = "\"" THEN "\"\"" ELSE text[i]] \o <<"\"">>
    ELSE text

\* an element's text in Array.prototype.join
JoinElement(v) == IF v.t \in {"null", "undef"} THEN <<>> ELSE StringOf(v)

formatAsCSV(data) ==
  IF ~IsArray(data) \/ Len(data.items) = 0 THEN Str(<<"No data available">>)
  ELSE LET items == data.items
           firstItem == items[1]
       IN IF ~IsObject(firstItem)
            THEN Str(JoinText([i \in 1..Len(items) |-> JoinElement(items[i])], <<",">>))
            ELSE LET headers == ObjectKeys(firstItem)
                     headerRow == JoinText([h \in 1..Len(headers) |-> <<headers[h]>>], <<",">>)
                     dataRows == [i \in 1..Len(items) |->
                                    JoinText([h \in 1..Len(headers) |->
                                                CsvValue(CellText(items[i], headers[h]))],
                                             <<",">>)]
                 IN IF RowThrows(items, headers)
                      THEN Thrown(<<"TypeError">>)
                      ELSE Str(JoinText(<<headerRow>> \o dataRows, <<"\n">>))

formatOutput(data, format, mode) ==
  CASE format = "table" -> formatAsTable(data)
    [] format = "csv" -> formatAsCSV(data)
    [] OTHER -> formatAsJSON(data, mode)

\* processedData of formatResponse after the field selection
ProjectedData(r, opts) ==
  IF opts.fields # None /\ IsArray(DataOf(r)) /\ opts.explicitFields = Some(TRUE)
    THEN selectFields(DataOf(r), The(opts.fields))
    ELSE DataOf(r)

\* options.page || options.page_size || options.limit
PaginationTriggered(opts) ==
  TruthyNum(opts.page) \/ TruthyNum(opts.page_size) \/ TruthyNum(opts.limit)

\* a wrong error path: the summary block is attached to the error envelope too
ErrorResultWithSummary(r) ==
  [data |-> Obj(<< <<"error", Str(r.error)>>, <<"status", Num(r.status)>> >>),
   summary |-> [total_items |-> 1, fields_included |-> <<"all">>,
                mode |-> "detailed", format |-> "json"]]

\* the return value of formatResponse's error path
ErrorResult(r) ==
  [data |-> Obj(<< <<"error", Str(r.error)>>, <<"status", Num(r.status)>> >>)]

\* a wrong summary block: total_items counts the array left after limit and page slice
SummaryBlockCountsShaped(r, opts) ==
  LET processedData == ProjectedData(r, opts)
      shapedData == IF PaginationTriggered(opts)
                      THEN applyPagination(processedData, opts).data ELSE processedData
  IN [total_items |-> IF IsArray(shapedData) THEN Len(shapedData.items) ELSE 1,
      fields_included |-> IF opts.fields = None THEN <<"all">> ELSE The(opts.fields),
      mode |-> OrStr(opts.mode, "detailed"),
      format |-> OrStr(opts.format, "json")]

\* the summary block formatResponse attaches
SummaryBlock(r, opts) ==
  [total_items |-> IF IsArray(DataOf(r)) THEN Len(DataOf(r).items) ELSE 1,
   fields_included |-> IF opts.fields = None THEN <<"all">> ELSE The(opts.fields),
   mode |-> OrStr(opts.mode, "detailed"),
   format |-> OrStr(opts.format, "json")]

formatResponse(r, opts) ==
  IF HasError(r)
    THEN ErrorResult(r)
    ELSE LET mode == OrStr(opts.mode, "detailed")
             format == OrStr(opts.format, "json")
             processedData == ProjectedData(r, opts)
         IN IF PaginationTriggered(opts)
              THEN LET paginationResult == applyPagination(processedData, opts)
                       out == formatOutput(paginationResult.data, format, mode)
                   IN IF IsThrown(out) THEN out
                      ELSE [data |-> out, pagination |-> paginationResult.pagination,
                            summary |-> SummaryBlock(r, opts)]
              ELSE LET out == formatOutput(processedData, format, mode)
                   IN IF IsThrown(out) THEN out
                      ELSE [data |-> out, summary |-> SummaryBlock(r, opts)]

----------------------------------------------------------------------------
(* Inputs of the shaper runs *)

\* array elements: objects (with a falsy value, with a text holding a comma),
\* null and a number
Elements ==
  { Obj(<< <<"a", Num(1)>>, <<"b", Num(2)>> >>),
    Obj(<< <<"b", Num(0)>> >>),
    Obj(<< <<"c", Str(<<"x", ",", "y">>)>>, <<"a", Null>> >>),
    Null,
    Num(7) }

\* the sequences over S of length n
SeqsOfLen(S, n) == [1..n -> S]

\* arrays of at most MaxLen elements
SmallArrays == {Arr(s) : s \in UNION {SeqsOfLen(Elements, n) : n \in 0..MaxLen}}

\* the i-th object of an array of identically shaped objects
Row(i) == Obj(<< <<"id", Num(i)>> >>)

\* the array of n identically shaped objects
Rows(n) == Arr([i \in 1..n |-> Row(i)])

LongArrays == {Rows(n) : n \in 0..MaxItems}

NonArrayData ==
  { Obj(<< <<"x", Num(1)>>, <<"y", Num(2)>>, <<"z", Num(3)>> >>),
    Str(<<"ok">>) }

ErrorEnvelopes ==
  { [error |-> <<"timeout of ", ToString(TimeoutMs), "ms exceeded">>, status |-> 500],
    [error |-> <<"Not Found">>, status |-> 404] }

Modes == {"compact", "summary", "detailed"}

Formats == {"json", "table", "csv"}

OptionalOf(S) == {None} \cup {Some(v) : v \in S}

FieldLists == {<<>>, <<"a">>, <<"c">>, <<"b", "a">>, <<"toString">>}

\* every rendering choice, with no pagination option
RenderOptions ==
  [mode : OptionalOf(Modes), format : OptionalOf(Formats),
   fields : OptionalOf(FieldLists), explicitFields : {None, Some(TRUE)},
   page : {None}, page_size : {None}, limit : {None}]

\* every pagination choice, in detailed and summary mode
PageOptions ==
  [mode : {None, Some("summary")}, format : {None},
   fields : {None}, explicitFields : {None},
   page : OptionalOf(0..MaxPage), page_size : OptionalOf(0..MaxPageSize),
   limit : OptionalOf(0..MaxLimit)]

\* rendering and pagination choices together
MixedOptions ==
  [mode : OptionalOf(Modes), format : OptionalOf({"table"}),
   fields : {None, Some(<<"a">>), Some(<<"toString">>)}, explicitFields : {None, Some(TRUE)},
   page : {None, Some(0), Some(2)}, page_size : {None, Some(0), Some(1)},
   limit : {None, Some(0), Some(1)}]

\* the scenario of 120 objects, limit 50, page 1, page size 20
ScenarioOptions ==
  [mode |-> None, format |-> None, fields |-> None, explicitFields |-> None,
   page |-> Some(1), page_size |-> Some(20), limit |-> Some(50)]

\* a limit alone, and the options the get_companies handler builds when the
\* caller passes no argument (limit: DEFAULT_LIMITS.companies)
LimitOnlyOptions ==
  { [mode |-> None, format |-> None, fields |-> None, explicitFields |-> None,
     page |-> None, page_size |-> None, limit |-> Some(l)] : l \in {30, 100, 200} }
  \cup
  { [mode |-> Some("detailed"), format |-> Some("json"), fields |-> None,
     explicitFields |-> Some(FALSE), page |-> None, page_size |-> None, limit |-> Some(100)] }

NoLocals == [processedData |-> Undefined, limitedData |-> Undefined, paginatedData |-> Undefined]

NoCall == [name |-> "none"]

----------------------------------------------------------------------------
(* The shaper on its own: formatResponse applied to an envelope and options *)

ShaperInit ==
  /\ pc = "start"
  /\ request = NoCall
  /\ tool = "none"
  /\ args = NoCall
  /\ transport = "none"
  /\ requests = 0
  /\ upstream = NoCall
  /\ outcome = NoCall
  /\ shaped = NoCall
  /\ reply = NoCall
  /\ locals = NoLocals
  /\ \/ /\ response \in ErrorEnvelopes
        /\ options \in RenderOptions \cup PageOptions \cup MixedOptions
     \/ /\ response \in {[data |-> d, status |-> 200] : d \in SmallArrays \cup NonArrayData}
        /\ options \in RenderOptions \cup MixedOptions
     \/ /\ response \in {[data |-> d, status |-> 200] : d \in LongArrays \cup NonArrayData}
        /\ options \in PageOptions
     \/ /\ response \in {[data |-> Rows(n), status |-> 200] : n \in {40, 120}}
        /\ options \in {ScenarioOptions} \cup LimitOnlyOptions

\* the locals of formatResponse and applyPagination at the end of the call
LocalsOf(r, opts) ==
  IF HasError(r) THEN NoLocals
  ELSE LET processedData == ProjectedData(r, opts)
       IN [processedData |-> processedData,
           limitedData |-> IF PaginationTriggered(opts) /\ IsArray(processedData)
                             THEN LimitedData(processedData, opts) ELSE Undefined,
           paginatedData |-> IF PaginationTriggered(opts)
                               THEN applyPagination(processedData, opts).data ELSE Undefined]

\* one call of formatResponse
Shape ==
  /\ pc = "start"
  /\ pc' = "done"
  /\ shaped' = formatResponse(response, options)
  /\ locals' = LocalsOf(response, options)
  /\ UNCHANGED <<request, tool, args, transport, requests, upstream, outcome, response, options, reply>>

ShaperNext == Shape

ShaperSpec == ShaperInit /\ [][ShaperNext]_vars

----------------------------------------------------------------------------
(* quiver-client: the upstream client *)

\* What the HTTP request can come to: a 2xx response with a body, a non-2xx
\* response (with or without a message in its body), or no response at all
\* (timeout, network failure).
Outcomes ==
  { [kind |-> "ok", status |-> Some(200), body |-> d, message |-> <<>>, bodyMessage |-> <<>>] :
      d \in { Arr(<<>>),
              Arr(<< Obj(<< <<"ticker", Str(<<"AAPL">>)>>, <<"a", Num(1)>>, <<"b", Num(2)>> >>),
                      Obj(<< <<"b", Num(0)>> >>) >>),
              Rows(3),
              Arr(<< Obj(<< <<"a", Num(1)>> >>), Null >>),
              Obj(<< <<"ticker", Str(<<"AAPL">>)>>, <<"price", Num(1)>>,
                     <<"congress_trading", Num(2)>> >>) } }
  \cup
  { [kind |-> "rejected", status |-> Some(401), body |-> Undefined,
     message |-> <<"Request failed with status code 401">>, bodyMessage |-> <<"Invalid token">>],
    [kind |-> "rejected", status |-> Some(404), body |-> Undefined,
     message |-> <<"Request failed with status code 404">>, bodyMessage |-> <<>>],
    [kind |-> "rejected", status |-> None, body |-> Undefined,
     message |-> <<"timeout of ", ToString(TimeoutMs), "ms exceeded">>, bodyMessage |-> <<>>],
    [kind |-> "rejected", status |-> None, body |-> Undefined,
     message |-> <<>>, bodyMessage |-> <<>>] }

\* a wrong catch: every failure is given status 500
makeRequestAlways500(o) ==
  IF o.kind = "ok"
    THEN [data |-> o.body, status |-> The(o.status)]
    ELSE [error |-> IF o.bodyMessage # <<>> THEN o.bodyMessage
                    ELSE IF o.message # <<>> THEN o.message
                    ELSE <<"Unknown error">>,
          status |-> 500]

\* the envelope makeRequest resolves to
makeRequest(o) ==
  IF o.kind = "ok"
    THEN [data |-> o.body, status |-> The(o.status)]
    ELSE [error |-> IF o.bodyMessage # <<>> THEN o.bodyMessage
                    ELSE IF o.message # <<>> THEN o.message
                    ELSE <<"Unknown error">>,
          status |-> OrNum(o.status, 500)]

----------------------------------------------------------------------------
(* tools: the tool registry *)

\* tools whose handler shapes the upstream envelope with formatResponse
ShapingTools ==
  { "get_companies", "get_funds", "get_recent_congress_trading", "get_congress_holdings",
    "get_recent_bill_summaries", "get_historical_congress_trading", "get_ticker_data",
    "get_recent_house_trading", "get_recent_senate_trading", "get_recent_gov_contracts",
    "get_recent_lobbying", "get_bulk_congress_trading" }

\* tools whose handler returns the upstream envelope as it is
PassThroughTools ==
  { "get_recent_gov_contracts_all", "get_recent_legislation", "get_live_off_exchange",
    "get_historical_gov_contracts", "get_historical_gov_contracts_all",
    "get_historical_house_trading", "get_historical_senate_trading",
    "get_historical_lobbying", "get_historical_off_exchange" }

\* quiverTools, by name
ToolNames == ShapingTools \cup PassThroughTools

\* tools whose handler starts with the ticker check
TickerTools ==
  { "get_historical_congress_trading", "get_ticker_data", "get_historical_gov_contracts",
    "get_historical_gov_contracts_all", "get_historical_house_trading",
    "get_historical_senate_trading", "get_historical_lobbying", "get_historical_off_exchange" }

\* DEFAULT_FIELDS of response-utils, by endpoint
DEFAULT_FIELDS(endpoint) ==
  CASE endpoint = "companies" -> <<"ticker", "name", "exchange", "market_cap">>
    [] endpoint = "funds" -> <<"fund_name", "cik", "total_value", "filing_date">>
    [] endpoint = "congress_trading" ->
         <<"ticker", "representative", "transaction_date", "amount", "transaction_type">>
    [] endpoint = "congress_holdings" -> <<"ticker", "representative", "value", "shares">>
    [] endpoint = "lobbying" -> <<"client_name", "registrant_name", "amount", "date">>
    [] endpoint = "gov_contracts" -> <<"ticker", "amount", "date", "description">>
    [] OTHER -> <<>>

\* DEFAULT_LIMITS of response-utils, by endpoint
DEFAULT_LIMITS(endpoint) ==
  CASE endpoint = "companies" -> 100
    [] endpoint = "funds" -> 50
    [] endpoint = "congress_trading" -> 200
    [] endpoint = "congress_holdings" -> 100
    [] endpoint = "lobbying" -> 50
    [] endpoint = "gov_contracts" -> 50
    [] endpoint = "bulk_data" -> 1000
    [] OTHER -> 1

\* the DEFAULT_LIMITS entry a shaping tool's handler names
LimitKey(name) ==
  CASE name = "get_companies" -> "companies"
    [] name = "get_funds" -> "funds"
    [] name = "get_congress_holdings" -> "congress_holdings"
    [] name = "get_recent_gov_contracts" -> "gov_contracts"
    [] name = "get_recent_lobbying" -> "lobbying"
    [] name = "get_bulk_congress_trading" -> "bulk_data"
    [] OTHER -> "congress_trading"

\* !args?.ticker
NoTicker(a) == a.ticker = None \/ The(a.ticker) = <<>>

\* a wrong handler: the endpoint's default field list stands in for absent
\* fields and is passed on as if the caller had asked for it
ToolOptionsDefaultFields(name, a) ==
  [mode |-> Some(OrStr(a.mode, "detailed")), format |-> Some(OrStr(a.format, "json")),
   fields |-> IF a.fields = None THEN Some(DEFAULT_FIELDS(LimitKey(name))) ELSE a.fields,
   explicitFields |-> Some(TRUE),
   page |-> a.page, page_size |-> a.page_size,
   limit |-> Some(OrNum(a.limit, DEFAULT_LIMITS(LimitKey(name))))]

\* the ResponseOptions a shaping tool's handler builds from the call's arguments
ToolOptions(name, a) ==
  CASE name = "get_recent_bill_summaries" ->
         [mode |-> Some(OrStr(a.mode, "detailed")), format |-> Some(OrStr(a.format, "json")),
          fields |-> a.fields, explicitFields |-> None,
          page |-> None, page_size |-> None, limit |-> a.limit]
    [] name = "get_ticker_data" ->
         [mode |-> Some(OrStr(a.mode, "summary")), format |-> Some(OrStr(a.format, "json")),
          fields |-> a.fields, explicitFields |-> None,
          page |-> a.page, page_size |-> a.page_size, limit |-> a.limit]
    [] name = "get_recent_lobbying" ->
         [mode |-> Some(OrStr(a.mode, "detailed")), format |-> Some(OrStr(a.format, "json")),
          fields |-> a.fields, explicitFields |-> Some(a.fields # None),
          page |-> None, page_size |-> None,
          limit |-> Some(OrNum(a.limit, DEFAULT_LIMITS(LimitKey(name))))]
    [] name = "get_bulk_congress_trading" ->
         [mode |-> Some(OrStr(a.mode, "summary")), format |-> Some(OrStr(a.format, "json")),
          fields |-> a.fields, explicitFields |-> Some(a.fields # None),
          page |-> None, page_size |-> None,
          limit |-> Some(OrNum(a.limit, DEFAULT_LIMITS(LimitKey(name))))]
    [] OTHER ->
         [mode |-> Some(OrStr(a.mode, "detailed")), format |-> Some(OrStr(a.format, "json")),
          fields |-> a.fields, explicitFields |-> Some(a.fields # None),
          page |-> a.page, page_size |-> a.page_size,
          limit |-> Some(OrNum(a.limit, DEFAULT_LIMITS(LimitKey(name))))]

\* sectionMap of selectTickerDataSections
SectionMap(section) ==
  CASE section = "basic" -> {"ticker", "name", "price", "change", "volume", "market_cap"}
    [] section = "trading" -> {"price", "change", "volume", "high", "low", "open", "close", "vwap"}
    [] section = "congress" -> {"congress_trading", "recent_congress_trades", "congress_sentiment",
                                "congress_buys", "congress_sells"}
    [] section = "sentiment" -> {"wsb_sentiment", "social_sentiment", "options_flow",
                                 "reddit_posts", "twitter_sentiment"}
    [] section = "contracts" -> {"gov_contracts", "lobbying_spending", "contract_awards",
                                 "lobbying_clients"}
    [] OTHER -> {}

\* the names sectionMap[section] is truthy for
SectionNames == {"basic", "trading", "congress", "sentiment", "contracts"}

selectTickerDataSections(data, sections) ==
  IF Falsy(data) \/ sections = None \/ Includes(The(sections), "all") THEN data
  ELSE IF \E i \in 1..Len(The(sections)) : The(sections)[i] \in ProtoKeys
    \* sectionMap[section] is an inherited member, which has no forEach
    THEN Thrown(<<"sectionMap[section].forEach is not a function">>)
  ELSE LET fieldsToInclude == UNION {SectionMap(The(sections)[i]) : i \in 1..Len(The(sections))}
           keep == IF IsObject(data)
                     THEN {i \in 1..Len(data.kv) : data.kv[i][1] \in fieldsToInclude}
                     ELSE {}
           idx == [j \in 1..Cardinality(keep) |->
                     CHOOSE i \in keep : Cardinality({k \in keep : k < i}) = j - 1]
       IN IF keep = {} THEN data
          ELSE Obj([j \in 1..Cardinality(keep) |-> data.kv[idx[j]]])

\* the envelope a handler passes to formatResponse: get_ticker_data assigns the
\* selected sections to response.data first
ShaperInput(name, a, r) ==
  IF /\ name = "get_ticker_data"
     /\ ~Falsy(DataOf(r))
     /\ a.sections # None
     /\ ~Includes(The(a.sections), "all")
    THEN LET selected == selectTickerDataSections(r.data, a.sections)
         IN IF IsThrown(selected) THEN selected ELSE [r EXCEPT !.data = selected]
    ELSE r

\* what a tool's handler returns (or throws) once the upstream request resolved to r
HandlerResult(name, a, r) ==
  IF name \in PassThroughTools THEN r
  ELSE LET input == ShaperInput(name, a, r)
       IN IF IsThrown(input) THEN input ELSE formatResponse(input, ToolOptions(name, a))

----------------------------------------------------------------------------
(* index / server-http: the dispatch layers *)

\* a reply carrying a tool result: { content: [{ type: 'text', text }], isError? }
ToolResult(text, isError, http) ==
  [member |-> "result", isError |-> isError, text |-> text, code |-> 0, httpStatus |-> http]

\* a JSON-RPC reply with an error member: { error: { code, message } }
RpcError(code, message, http) ==
  [member |-> "error", isError |-> FALSE, text |-> Str(message), code |-> code, httpStatus |-> http]

\* `Error: ${result.error} (Status: ${result.status})`
UpstreamErrorText(r) == Str(<<"Error: ">> \o r.error \o <<" (Status: ", ToString(r.status), ")">>)

\* typeof result.data === 'string' ? result.data : JSON.stringify(result.data)
ResultText(result) ==
  IF DataOf(result).t = "str" THEN DataOf(result) ELSE JSONStringify(DataOf(result))

\* the reply of the stdio server for a handler's return value
ReturnedResult(result, http) ==
  IF HasError(result)
    THEN ToolResult(UpstreamErrorText(result), TRUE, http)
    ELSE IF {"data", "summary", "pagination"} \cap DOMAIN result # {}
      THEN ToolResult(ResultText(result), FALSE, http)
      ELSE ToolResult(JSONStringify(DataOf(result)), FALSE, http)

\* the CallToolRequestSchema handler of the stdio server, given what the tool's
\* handler returned or threw
StdioToolReply(result) ==
  IF IsThrown(result)
    THEN ToolResult(Str(<<"Error: ">> \o result.msg), TRUE, 0)
    ELSE ReturnedResult(result, 0)

\* a wrong copy of the result handling: result.data is always stringified
HttpReturnedResultStringifies(result) ==
  IF HasError(result)
    THEN ToolResult(UpstreamErrorText(result), TRUE, 200)
    ELSE ToolResult(JSONStringify(DataOf(result)), FALSE, 200)

\* the reply of POST /message for a handler's return value
HttpReturnedResult(result) ==
  IF HasError(result)
    THEN ToolResult(Str(<<"Error: ">> \o result.error
                        \o <<" (Status: ", ToString(result.status), ")">>), TRUE, 200)
    ELSE LET isFormattedResponse == {"data", "summary", "pagination"} \cap DOMAIN result # {}
         IN IF isFormattedResponse
              THEN ToolResult(IF DataOf(result).t = "str" THEN DataOf(result)
                              ELSE JSONStringify(DataOf(result)), FALSE, 200)
              ELSE ToolResult(JSONStringify(DataOf(result)), FALSE, 200)

\* a wrong catch: the handler's exception becomes a tool result, as on stdio
HttpToolReplyAsResult(result) ==
  IF IsThrown(result)
    THEN ToolResult(Str(<<"Error: ">> \o result.msg), TRUE, 200)
    ELSE HttpReturnedResult(result)

\* the tools/call branch of app.post('/message'), given what the tool's handler
\* returned or threw
HttpToolReply(result) ==
  IF IsThrown(result)
    THEN RpcError(-32603, result.msg, 200)
    ELSE HttpReturnedResult(result)

\* the arguments of a call
CallArgs ==
  [mode : {None, Some("summary"), Some("compact")},
   format : {None, Some("table")},
   fields : {None, Some(<<"a">>)},
   page : {None, Some(2)},
   page_size : {None, Some(1)},
   limit : {None, Some(1)},
   ticker : {None, Some(<<>>), Some(<<"AAPL">>)},
   sections : {None, Some(<<"basic">>)}]

CallNames == ToolNames \cup {"no_such_tool"}

Init ==
  /\ pc = "idle"
  /\ request = NoCall
  /\ tool = "none"
  /\ args = NoCall
  /\ transport = "none"
  /\ requests = 0
  /\ upstream = NoCall
  /\ outcome = NoCall
  /\ response = NoCall
  /\ options = NoCall
  /\ locals = NoLocals
  /\ shaped = NoCall
  /\ reply = NoCall

\* the reply as sent for the request with the given id (req.body.id)
Sent(r, id) ==
  [member |-> r.member, isError |-> r.isError, text |-> r.text, code |-> r.code,
   httpStatus |-> r.httpStatus, id |-> id]

\* the ids of the JSON-RPC requests posted to /message
RequestIds == {Some(1), Some(2)}

\* a wrong handler: the upstream request is issued before the ticker check
StartHandlerRequestsFirst(name, a, replyToThrow) ==
  IF name \in TickerTools /\ NoTicker(a)
    THEN /\ reply' = replyToThrow
         /\ pc' = "replied"
         /\ requests' = requests + 1
    ELSE /\ requests' = requests + 1
         /\ pc' = "awaiting"
         /\ UNCHANGED reply

\* the handler's synchronous start: the ticker check, then the upstream request;
\* replyToThrow is the dispatcher's reply to the exception of the ticker test
StartHandler(name, a, replyToThrow) ==
  IF name \in TickerTools /\ NoTicker(a)
    THEN /\ reply' = replyToThrow
         /\ pc' = "replied"
         /\ UNCHANGED requests
    ELSE /\ requests' = requests + 1
         /\ pc' = "awaiting"
         /\ UNCHANGED reply

\* a tools/call request arrives: the tool is looked up and its handler runs
\* up to its await
ReceiveCall(name, a, via, id, replyToUnknown, replyToThrow) ==
  /\ request' = [method |-> "tools/call", id |-> id, params |-> TRUE]
  /\ tool' = name
  /\ args' = a
  /\ transport' = via
  /\ IF name \notin ToolNames
       THEN /\ reply' = replyToUnknown
            /\ pc' = "replied"
            /\ UNCHANGED requests
       ELSE StartHandler(name, a, replyToThrow)
  /\ UNCHANGED <<upstream, outcome, response, options, locals, shaped>>

\* a JSON-RPC reply with a result member other than a tool result
RpcResult(what) ==
  [member |-> "result", isError |-> FALSE, text |-> Str(what), code |-> 0, httpStatus |-> 200]

\* the names getPrompt knows
PromptNames ==
  { "analyze-congress-trading", "company-deep-dive", "government-influence-analysis",
    "optimize-query-strategy" }

\* the URIs getResource knows
ResourceUris ==
  { "quiver://server/instructions", "quiver://docs/optimization-guide",
    "quiver://docs/field-reference", "quiver://examples/congress-analysis",
    "quiver://examples/company-research", "quiver://reference/response-modes" }

\* the methods of POST /message that answer with a fixed result
PlainMethods ==
  { "initialize", "initialized", "ping", "tools/list", "resources/list", "prompts/list",
    "$/cancelRequest" }

\* the outer catch of POST /message: destructuring absent params throws
OuterCatch == RpcError(-32603, <<"Cannot destructure property of undefined">>, 500)

\* a request other than tools/call is answered at once
AnswerAtOnce(method, hasParams, what, id, r) ==
  /\ request' = [method |-> method, id |-> id, params |-> hasParams]
  /\ tool' = what
  /\ transport' = "http"
  /\ reply' = Sent(r, id)
  /\ pc' = "replied"
  /\ UNCHANGED <<args, requests, upstream, outcome, response, options, locals, shaped>>

\* stdio: a CallToolRequest arrives
StdioCallTool ==
  /\ pc = "idle"
  /\ \E name \in CallNames, a \in CallArgs :
       ReceiveCall(name, a, "stdio", None,
                   Sent(StdioToolReply(Thrown(<<"Unknown tool: ", name>>)), None),
                   Sent(StdioToolReply(Thrown(<<"ticker parameter is required">>)), None))

\* HTTP: a tools/call request arrives at POST /message
HttpCallTool ==
  /\ pc = "idle"
  /\ \/ \E name \in CallNames, a \in CallArgs, id \in RequestIds :
          ReceiveCall(name, a, "http", id,
                      Sent(RpcError(-32601, <<"Unknown tool: ", name>>, 200), id),
                      Sent(HttpToolReply(Thrown(<<"ticker parameter is required">>)), id))
     \/ \E id \in RequestIds : AnswerAtOnce("tools/call", FALSE, "none", id, OuterCatch)

\* the upstream request resolves: makeRequest returns its envelope
\* a wrong client: a rejected request is issued once more
UpstreamResolveRetries ==
  /\ pc = "awaiting"
  /\ \E o \in Outcomes :
       /\ outcome' = o
       /\ IF o.kind = "rejected" /\ requests < 2
            THEN /\ requests' = requests + 1
                 /\ UNCHANGED <<pc, response, upstream>>
            ELSE /\ response' = makeRequest(o)
                 /\ upstream' = response'
                 /\ pc' = "resolved"
                 /\ UNCHANGED requests
  /\ UNCHANGED <<request, tool, args, transport, options, locals, shaped, reply>>

\* the upstream exchange ends (a response, a timeout or a network failure) and
\* makeRequest resolves; the handler's `response` is the resolved envelope
UpstreamResolve ==
  /\ pc = "awaiting"
  /\ \E o \in Outcomes :
       /\ outcome' = o
       /\ response' = makeRequest(o)
  /\ upstream' = response'
  /\ pc' = "resolved"
  /\ UNCHANGED <<request, tool, args, transport, requests, options, locals, shaped, reply>>

\* the rest of the tool's handler, after the await
HandlerReturn ==
  /\ pc = "resolved"
  /\ shaped' = HandlerResult(tool, args, response)
  /\ LET input == ShaperInput(tool, args, response)
     IN IF tool \in PassThroughTools \/ IsThrown(input)
          THEN UNCHANGED <<response, options, locals>>
          ELSE /\ response' = input
               /\ options' = ToolOptions(tool, args)
               /\ locals' = LocalsOf(input, ToolOptions(tool, args))
  /\ pc' = "returned"
  /\ UNCHANGED <<request, tool, args, transport, requests, upstream, outcome, reply>>

\* stdio: the handler's result becomes the reply
StdioReply ==
  /\ pc = "returned"
  /\ transport = "stdio"
  /\ reply' = Sent(StdioToolReply(shaped), request.id)
  /\ pc' = "replied"
  /\ UNCHANGED <<request, tool, args, transport, requests, upstream, outcome, response, options, locals, shaped>>

\* HTTP: the handler's result becomes the reply
HttpReply ==
  /\ pc = "returned"
  /\ transport = "http"
  /\ reply' = Sent(HttpToolReply(shaped), request.id)
  /\ pc' = "replied"
  /\ UNCHANGED <<request, tool, args, transport, requests, upstream, outcome, response, options, locals, shaped>>

\* HTTP: prompts/get
HttpGetPrompt ==
  /\ pc = "idle"
  /\ \E id \in RequestIds :
       \/ \E name \in PromptNames \cup {"no-such-prompt"} :
            AnswerAtOnce("prompts/get", TRUE, name, id,
                         IF name \in PromptNames
                           THEN RpcResult(<<"messages of ", name>>)
                           ELSE RpcError(-32601, <<"Unknown prompt: ", name>>, 200))
       \/ AnswerAtOnce("prompts/get", FALSE, "none", id, OuterCatch)

\* HTTP: resources/read
HttpReadResource ==
  /\ pc = "idle"
  /\ \E id \in RequestIds :
       \/ \E uri \in ResourceUris \cup {"quiver://no/such"} :
            AnswerAtOnce("resources/read", TRUE, uri, id,
                         IF uri \in ResourceUris
                           THEN RpcResult(<<"contents of ", uri>>)
                           ELSE RpcError(-32601, <<"Unknown resource: ", uri>>, 200))
       \/ AnswerAtOnce("resources/read", FALSE, "none", id, OuterCatch)

\* HTTP: every other method
HttpOtherMethod ==
  /\ pc = "idle"
  /\ \E id \in RequestIds, method \in PlainMethods \cup {"no/such"} :
       AnswerAtOnce(method, TRUE, "none", id,
                    IF method \in PlainMethods
                      THEN RpcResult(<<"result of ", method>>)
                      ELSE RpcError(-32601, <<"Unknown method: ", method>>, 200))

Next ==
  \/ StdioCallTool
  \/ HttpCallTool
  \/ HttpGetPrompt
  \/ HttpReadResource
  \/ HttpOtherMethod
  \/ UpstreamResolve
  \/ HandlerReturn
  \/ StdioReply
  \/ HttpReply

Spec == Init /\ [][Next]_vars

----------------------------------------------------------------------------
(* Properties of the shaper, checked under ShaperSpec *)

\* the shaper run has ended on a successful transform
Transformed == pc = "done" /\ ~HasError(response) /\ ~IsThrown(shaped)

\* the data that reaches the rendering stage
RenderInput ==
  IF PaginationTriggered(options) THEN locals.paginatedData ELSE locals.processedData

\* C1: for an envelope whose error is set, whatever the options, formatResponse
\* returns exactly {data: {error, status}}: no summary, no pagination, no other
\* stage run, nothing thrown.
C1_ErrorShortCircuit ==
  (pc = "done" /\ HasError(response)) =>
    /\ ~IsThrown(shaped)
    /\ DOMAIN shaped = {"data"}
    /\ shaped.data = Obj(<< <<"error", Str(response.error)>>,
                            <<"status", Num(response.status)>> >>)
    /\ locals = NoLocals

C1_Witness ==
  /\ pc = "done"
  /\ HasError(response)
  /\ response.status = 404
  /\ options.format = Some("table")
  /\ options.mode = Some("summary")
  /\ options.fields = Some(<<"a">>)
  /\ options.limit = Some(1)
  /\ options.page = Some(2)
  /\ DOMAIN shaped = {"data"}

\* C3 (as claimed): on a successful transform the output carries a pagination
\* field if and only if at least one of page, page_size, limit was supplied.
C3_PaginationIffSupplied ==
  Transformed =>
    (("pagination" \in DOMAIN shaped) <=>
       (options.page # None \/ options.page_size # None \/ options.limit # None))

\* C10: on every successful transform the output carries summary =
\* {total_items, fields_included, mode, format}: total_items is the length of the
\* input array before projection, limit and paging (1 for a non-array),
\* fields_included is options.fields or ['all'] when absent, mode and format are
\* the effective values after defaulting to detailed and json.
C10_SummaryBlock ==
  Transformed =>
    /\ "summary" \in DOMAIN shaped
    /\ DOMAIN shaped.summary = {"total_items", "fields_included", "mode", "format"}
    /\ shaped.summary.total_items =
         (IF response.data.t = "arr" THEN Len(response.data.items) ELSE 1)
    /\ shaped.summary.fields_included =
         (IF options.fields = None THEN <<"all">> ELSE The(options.fields))
    /\ \/ options.mode = None /\ shaped.summary.mode = "detailed"
       \/ options.mode = Some(shaped.summary.mode)
    /\ \/ options.format = None /\ shaped.summary.format = "json"
       \/ options.format = Some(shaped.summary.format)

C10_Witness ==
  /\ Transformed
  /\ response.data.t = "arr"
  /\ Len(response.data.items) = 2
  /\ options.limit = Some(1)
  /\ options.fields = Some(<<"a">>)
  /\ options.explicitFields = Some(TRUE)
  /\ options.mode = None
  /\ "pagination" \in DOMAIN shaped
  /\ shaped.pagination.total_items = 1
  /\ shaped.summary.total_items = 2
  /\ shaped.summary.fields_included = <<"a">>
  /\ shaped.summary.mode = "detailed"

\* k = ceil(n / d), stated without division
IsCeil(k, n, d) == k >= 0 /\ k * d >= n /\ (k = 0 \/ (k - 1) * d < n)

\* the pagination block p reports page cur of pages of the given size over total items
PaginationBlockIs(p, cur, size, total) ==
  /\ p.current_page = cur
  /\ p.page_size = size
  /\ p.total_items = total
  /\ IsCeil(p.total_pages, total, size)
  /\ p.has_next = (cur < p.total_pages)
  /\ p.has_previous = (cur > 1)

\* applyPagination ran on an array with a positive (or absent) page_size
PageBlockCase ==
  /\ Transformed
  /\ PaginationTriggered(options)
  /\ locals.processedData.t = "arr"
  /\ (options.page_size = None \/ The(options.page_size) > 0)

\* the length of the array after the limit truncation, before the page slice
PostLimitLength ==
  LET n == Len(locals.processedData.items)
  IN IF options.limit # None /\ The(options.limit) > 0 /\ The(options.limit) < n
       THEN The(options.limit) ELSE n

\* the scenario: 120 objects, limit 50, page 1, page_size 20
ScenarioHolds ==
  (response.data = Rows(120) /\ options = ScenarioOptions) =>
    /\ shaped.pagination = [current_page |-> 1, page_size |-> 20, total_items |-> 50,
                            total_pages |-> 3, has_next |-> TRUE, has_previous |-> FALSE]
    /\ Len(shaped.data.items) = 20

\* C4 (as claimed): for array data and a positive page_size the pagination block
\* has current_page = page (1 when absent), page_size = page_size (50 when
\* absent), total_items = length after limit truncation, total_pages =
\* ceil(total_items / page_size), has_next = (current_page < total_pages),
\* has_previous = (current_page > 1).
C4_PaginationBlock_AsClaimed ==
  PageBlockCase =>
    /\ PaginationBlockIs(shaped.pagination,
                         IF options.page = None THEN 1 ELSE The(options.page),
                         IF options.page_size = None THEN 50 ELSE The(options.page_size),
                         PostLimitLength)
    /\ ScenarioHolds

\* C4 (amended): as claimed, except that current_page is 1 also when the page
\* supplied is 0; current_page = page for every page >= 1.
C4_PaginationBlock ==
  PageBlockCase =>
    /\ PaginationBlockIs(shaped.pagination,
                         IF options.page = None \/ The(options.page) = 0
                           THEN 1 ELSE The(options.page),
                         IF options.page_size = None THEN 50 ELSE The(options.page_size),
                         PostLimitLength)
    /\ ScenarioHolds

C4_Witness ==
  /\ PageBlockCase
  /\ response.data = Rows(120)
  /\ options = ScenarioOptions
  /\ shaped.pagination.total_pages = 3
  /\ shaped.pagination.has_next
  /\ Len(shaped.data.items) = 20

\* the array handed on by the limiting step: to the page slice when the
\* pagination stage runs, else to the rendering
ReachedArray ==
  IF PaginationTriggered(options) THEN locals.limitedData ELSE locals.processedData

\* a limit was passed for array data
LimitCase ==
  /\ pc = "done"
  /\ ~HasError(response)
  /\ locals.processedData.t = "arr"
  /\ options.limit # None

\* the first n elements of an array (all of them when it has fewer)
Prefix(a, n) == Arr(SubSeq(a.items, 1, IF n < Len(a.items) THEN n ELSE Len(a.items)))

\* C5 (as claimed): for any array input and any limit n >= 0, the array that
\* reaches the pagination stage is the prefix of the original of length
\* min(n, original.length).
C5_LimitPrefix_AsClaimed ==
  LimitCase => ReachedArray = Prefix(locals.processedData, The(options.limit))

\* C5 (amended): for any array input and any limit n > 0, the array handed to
\* the page slice is the prefix of the original of length min(n, original.length),
\* order and elements unchanged; a limit of 0 truncates nothing.
C5_LimitPrefix ==
  LimitCase =>
    /\ IF The(options.limit) > 0
         THEN locals.limitedData = Prefix(locals.processedData, The(options.limit))
         ELSE ReachedArray = locals.processedData
    /\ (options.fields = None => locals.processedData = response.data)

C5_Witness ==
  /\ LimitCase
  /\ options.limit = Some(2)
  /\ Len(response.data.items) = 4
  /\ locals.limitedData = Rows(2)

\* the set of the names in a field list
FieldSet(F) == {F[i] : i \in 1..Len(F)}

\* p is the projection of element o onto F that the claim describes
ProjectedAsClaimed(o, F, p) ==
  IF o.t # "obj" THEN p = o
  ELSE LET common == OwnKeySet(o) \cap FieldSet(F)
       IN IF common = {} THEN p = o
          ELSE /\ p.t = "obj"
               /\ OwnKeySet(p) = common
               /\ Len(p.kv) = Cardinality(common)
               /\ \A k \in common : GetProp(p, k) = GetProp(o, k)

\* selectFields ran: an array, a non-empty field list, explicitly requested
ProjectionCase ==
  /\ pc = "done"
  /\ ~HasError(response)
  /\ response.data.t = "arr"
  /\ options.fields # None
  /\ The(options.fields) # <<>>
  /\ options.explicitFields = Some(TRUE)

\* C6: selectFields with a non-empty field list F keeps the array's length and
\* order; an object with a key in F becomes the object of exactly its keys in F
\* with their values; an object with no key in F and a non-object are unchanged.
C6_SelectFields ==
  ProjectionCase =>
    /\ locals.processedData.t = "arr"
    /\ Len(locals.processedData.items) = Len(response.data.items)
    /\ \A i \in 1..Len(response.data.items) :
         ProjectedAsClaimed(response.data.items[i], The(options.fields),
                            locals.processedData.items[i])

\* C8: rendering operates on the mode-transformed data: with format table or csv
\* and mode summary on array data the output is a table of the summary object's
\* fields (count, sample, fields), not a table of the array's rows.
C8_TableOfSummary ==
  (/\ Transformed
   /\ options.mode = Some("summary")
   /\ options.format \in {Some("table"), Some("csv")}
   /\ RenderInput.t = "arr"
   /\ Len(RenderInput.items) > 0) =>
    /\ shaped.data.t = "str"
    /\ Includes(shaped.data.s, "count")
    /\ Includes(shaped.data.s, "sample")
    /\ Includes(shaped.data.s, "fields")
    /\ shaped.data # formatAsTable(RenderInput)
    /\ shaped.data # formatAsCSV(RenderInput)

\* json format, summary mode
SummaryCase ==
  /\ Transformed
  /\ options.mode = Some("summary")
  /\ options.format \in {None, Some("json")}

\* the key list of the first object element of an array, [] when it has none
FirstObjectKeys(a) ==
  IF \A i \in 1..Len(a.items) : a.items[i].t # "obj" THEN Arr(<<>>)
  ELSE LET k == CHOOSE i \in 1..Len(a.items) :
                  /\ a.items[i].t = "obj"
                  /\ \A j \in 1..(i - 1) : a.items[j].t # "obj"
       IN Arr([j \in 1..Len(a.items[k].kv) |-> Str(<<a.items[k].kv[j][1]>>)])

\* d is the summary of value v with the given count
SummaryIs(d, v, count) ==
  IF v.t = "arr"
    THEN d = Obj(<< <<"type", Str(<<"array">>)>>,
                    <<"count", Num(count)>>,
                    <<"sample", Arr(SubSeq(v.items, 1, IF Len(v.items) > 5 THEN 5 ELSE Len(v.items)))>>,
                    <<"fields", FirstObjectKeys(v)>> >>)
    ELSE d = Obj(<< <<"type", Str(<<"object">>)>>, <<"preview", v>> >>)

\* C9 (as claimed): in json format with mode summary, array data is replaced by
\* {type: 'array', count, sample, fields} with count the array length after the
\* limit truncation; non-array data by {type: 'object', preview}.
C9_Summary_AsClaimed ==
  SummaryCase =>
    SummaryIs(shaped.data, RenderInput,
              IF RenderInput.t = "arr" THEN PostLimitLength ELSE 1)

\* C9 (amended): count is the length of the array that reaches the rendering,
\* that is after the limit truncation and the page slice; sample is the first 5
\* elements of that array (all if fewer), fields the key list of its first
\* non-null object element ([] if none); non-array data is replaced by
\* {type: 'object', preview: <the value>}.
C9_Summary ==
  SummaryCase =>
    SummaryIs(shaped.data, RenderInput,
              IF RenderInput.t = "arr" THEN Len(RenderInput.items) ELSE 1)

C9_Witness ==
  /\ SummaryCase
  /\ response.data = Rows(6)
  /\ options.limit = Some(4)
  /\ options.page_size = Some(3)
  /\ options.page = Some(2)
  /\ GetProp(shaped.data, "count") = Num(1)
  /\ GetProp(shaped.data, "sample") = Arr(<<Row(4)>>)
  /\ GetProp(shaped.data, "fields") = Arr(<<Str(<<"id">>)>>)

----------------------------------------------------------------------------
(* Properties of the servers, checked under Spec *)

\* a call whose upstream request resolved has been answered
Answered == pc = "replied" /\ requests = 1

\* C2: for every tool, when the upstream client returns an error envelope
\* {error, status}, the reply to tools/call is a tool-level error: a result
\* marked isError with text 'Error: <error> (Status: <status>)', never a
\* successful result and never a thrown exception.
C2_UpstreamErrorIsToolError ==
  (Answered /\ HasError(upstream)) =>
    /\ reply.member = "result"
    /\ reply.isError
    /\ reply.text = Str(<<"Error: ">> \o upstream.error
                        \o <<" (Status: ", ToString(upstream.status), ")">>)

\* a shaping tool's handler returned the shaped result of a successful request
ShapedCall ==
  /\ pc \in {"returned", "replied"}
  /\ requests = 1
  /\ tool \in ShapingTools
  /\ ~HasError(upstream)
  /\ ~IsThrown(shaped)

\* the index before the first returned element in the array the page was cut from
PageStart ==
  IF "pagination" \in DOMAIN shaped
    THEN (shaped.pagination.current_page - 1) * shaped.pagination.page_size
    ELSE 0

----------------------------------------------------------------------------
(* Rendering properties, checked under ShaperSpec *)

\* the number a numeric token of a JSON text denotes
NumberOf(tok) == CHOOSE n \in 0..999 : ToString(n) = tok

RECURSIVE ParseString(_, _)
\* the string literal whose opening quote has been read: the value and the rest
ParseString(toks, acc) ==
  IF Head(toks) = "\"" THEN [v |-> Str(acc), rest |-> Tail(toks)]
  ELSE ParseString(Tail(toks),
                   Append(acc, IF Head(toks) = "\\\"" THEN "\""
                               ELSE IF Head(toks) = "\\\\" THEN "\\" ELSE Head(toks)))

RECURSIVE ParseValue(_)
RECURSIVE ParseItems(_, _)
RECURSIVE ParseMembers(_, _)
\* the JSON value at the head of a text: the value and the rest
ParseValue(toks) ==
  CASE Head(toks) = "null" -> [v |-> Null, rest |-> Tail(toks)]
    [] Head(toks) = "\"" -> ParseString(Tail(toks), <<>>)
    [] Head(toks) = "[" ->
         IF toks[2] = "]" THEN [v |-> Arr(<<>>), rest |-> Tail(Tail(toks))]
         ELSE ParseItems(Tail(toks), <<>>)
    [] Head(toks) = "{" ->
         IF toks[2] = "}" THEN [v |-> Obj(<<>>), rest |-> Tail(Tail(toks))]
         ELSE ParseMembers(Tail(toks), <<>>)
    [] OTHER -> [v |-> Num(NumberOf(Head(toks))), rest |-> Tail(toks)]

\* the elements of an array literal up to its closing bracket
ParseItems(toks, acc) ==
  LET item == ParseValue(toks)
  IN IF Head(item.rest) = ","
       THEN ParseItems(Tail(item.rest), Append(acc, item.v))
       ELSE [v |-> Arr(Append(acc, item.v)), rest |-> Tail(item.rest)]

\* the members of an object literal up to its closing brace
ParseMembers(toks, acc) ==
  LET key == ParseString(Tail(toks), <<>>)
      member == ParseValue(Tail(key.rest))
      kv == Append(acc, <<Render(key.v.s), member.v>>)
  IN IF Head(member.rest) = ","
       THEN ParseMembers(Tail(member.rest), kv)
       ELSE [v |-> Obj(kv), rest |-> Tail(member.rest)]

\* JSON.parse(text)
JSONParse(text) == ParseValue(text).v

\* the options with another mode
WithMode(opts, mode) == [opts EXCEPT !.mode = Some(mode)]

\* json format, compact mode
CompactCase ==
  /\ Transformed
  /\ options.mode = Some("compact")
  /\ options.format \in {None, Some("json")}

\* C11: for any JSON-serializable data and two option sets that differ only in
\* mode, the data returned in compact mode is a string, and parsing it as JSON
\* yields a value equal to the data returned in detailed mode (json format,
\* same fields / limit / page options).
C11_CompactRoundTrip ==
  CompactCase =>
    /\ shaped.data.t = "str"
    /\ JSONParse(shaped.data.s) = formatResponse(response, WithMode(options, "detailed")).data

\* the array that reaches the rendering with the given format
RenderedArray(format) ==
  /\ Transformed
  /\ options.format = Some(format)
  /\ RenderInput.t = "arr"

\* every element is an object whose values are JSON values
AllDataObjects(a) ==
  \A i \in 1..Len(a.items) :
    /\ a.items[i].t = "obj"
    /\ \A j \in 1..Len(a.items[i].kv) : a.items[i].kv[j][2].t \in {"null", "num", "str"}

\* every element is a number or null
NoObjects(a) == \A i \in 1..Len(a.items) : a.items[i].t \in {"null", "num"}

\* the text of an element's value for a key: empty when the element lacks the
\* key (or holds null for it)
ValueText(item, key) ==
  IF key \notin OwnKeySet(item) \/ GetProp(item, key).t = "null" THEN <<>>
  ELSE StringOf(GetProp(item, key))

\* a row of cells between pipes
PipeRow(cells) == <<"| ">> \o JoinText(cells, <<" | ">>) \o <<" |">>

\* the table the claim describes for a non-empty array of objects
TableOfValues(a) ==
  LET headers == ObjectKeys(a.items[1])
  IN JoinText(<< PipeRow([h \in 1..Len(headers) |-> <<headers[h]>>]),
                 PipeRow([h \in 1..Len(headers) |-> <<"---">>]) >>
              \o [i \in 1..Len(a.items) |->
                    PipeRow([h \in 1..Len(headers) |-> ValueText(a.items[i], headers[h])])],
              <<"\n">>)

\* C12: with format = table, a non-empty array of objects renders as a header
\* row of the first element's keys in insertion order, a separator row and one
\* row per element in input order whose cells are the element's values for the
\* header keys (empty when the element lacks the key); an array of non-objects
\* renders one single-column row per element; an empty array renders
\* 'No data available'.
C12_TableRendering ==
  RenderedArray("table") =>
    /\ (Len(RenderInput.items) = 0) => shaped.data = Str(<<"No data available">>)
    /\ (Len(RenderInput.items) > 0 /\ AllDataObjects(RenderInput)) =>
         shaped.data = Str(TableOfValues(RenderInput))
    /\ (Len(RenderInput.items) > 0 /\ NoObjects(RenderInput)) =>
         shaped.data = Str(JoinText([i \in 1..Len(RenderInput.items) |->
                                       PipeRow(<<StringOf(RenderInput.items[i])>>)],
                                    <<"\n">>))

\* a value's text quoted for CSV when it holds a comma or a double quote
Quoted(text) ==
  IF \E i \in 1..Len(text) : text[i] \in {",", "\""}
    THEN <<"\"">> \o [i \in 1..Len(text) |-> IF text[i] = "\"" THEN "\"\"" ELSE text[i]]
         \o <<"\"">>
    ELSE text

\* the CSV text of the rows and columns the table is made of
CsvOfTableCells(a) ==
  LET headers == ObjectKeys(a.items[1])
  IN JoinText(<< JoinText([h \in 1..Len(headers) |-> <<headers[h]>>], <<",">>) >>
              \o [i \in 1..Len(a.items) |->
                    JoinText([h \in 1..Len(headers) |->
                                Quoted(CellText(a.items[i], headers[h]))], <<",">>)],
              <<"\n">>)

\* C13: with format = csv the rows and columns are those of format = table
\* (header from the first element's keys, one line per element in order, for an
\* array of non-objects one single-value line per element), values joined by
\* commas, a value holding a comma or a double quote wrapped in double quotes
\* with inner quotes doubled; an empty array renders 'No data available'.
C13_CsvRendering ==
  RenderedArray("csv") =>
    /\ (Len(RenderInput.items) = 0) => shaped.data = Str(<<"No data available">>)
    /\ (Len(RenderInput.items) > 0 /\ AllDataObjects(RenderInput)) =>
         shaped.data = Str(CsvOfTableCells(RenderInput))
    /\ (Len(RenderInput.items) > 0 /\ NoObjects(RenderInput)) =>
         shaped.data = Str(JoinText([i \in 1..Len(RenderInput.items) |->
                                       Quoted(StringOf(RenderInput.items[i]))],
                                    <<"\n">>))

----------------------------------------------------------------------------
(* The section selector on its own: selectTickerDataSections applied to a *)
(* value and a section list                                               *)

\* the objects over a few keys of the sections and one key of none
TickerObjects ==
  { Obj(kv) : kv \in
      { <<>>,
        << <<"congress_trading", Num(2)>> >>,
        << <<"ticker", Str(<<"AAPL">>)>>, <<"price", Num(1)>> >>,
        << <<"price", Num(0)>>, <<"other", Num(3)>> >>,
        << <<"other", Num(3)>> >>,
        << <<"ticker", Str(<<"AAPL">>)>>, <<"other", Num(3)>>, <<"congress_trading", Num(2)>>,
           <<"wsb_sentiment", Null>>, <<"price", Num(1)>> >> } }

\* section lists: absent, empty, known, unknown and inherited names, 'all'
SectionLists ==
  { None, Some(<<>>), Some(<<"all">>), Some(<<"basic">>), Some(<<"congress">>),
    Some(<<"trading", "sentiment">>), Some(<<"basic", "all">>), Some(<<"contracts">>),
    Some(<<"nosuch">>), Some(<<"nosuch", "basic">>), Some(<<"toString">>),
    Some(<<"basic", "constructor">>) }

SectionsInit ==
  /\ pc = "start"
  /\ request = NoCall
  /\ tool = "none"
  /\ transport = "none"
  /\ requests = 0
  /\ upstream = NoCall
  /\ outcome = NoCall
  /\ options = NoCall
  /\ locals = NoLocals
  /\ shaped = NoCall
  /\ reply = NoCall
  /\ response \in {[data |-> d, status |-> 200] : d \in TickerObjects \cup {Null, Rows(1)}}
  /\ args \in {[sections |-> s] : s \in SectionLists}

\* one call of selectTickerDataSections
SelectSections ==
  /\ pc = "start"
  /\ pc' = "selected"
  /\ shaped' = selectTickerDataSections(response.data, args.sections)
  /\ UNCHANGED <<request, tool, args, transport, requests, upstream, outcome, response, options, locals, reply>>

SectionsNext == SelectSections

SectionsSpec == SectionsInit /\ [][SectionsNext]_vars

\* the names in a section list
NamedSections == {The(args.sections)[i] : i \in 1..Len(The(args.sections))}

\* C14: selectTickerDataSections(obj, sections) returns obj unchanged when
\* sections is absent, empty or contains 'all'; otherwise exactly the top-level
\* keys of obj in the union of the named sections' key sets, values unchanged
\* (unknown section names contribute nothing and are not an error); and obj
\* unchanged when that would leave no key.
C14_SectionSelection ==
  (pc = "selected") =>
    IF args.sections = None \/ "all" \in NamedSections \/ response.data.t # "obj"
      THEN shaped = response.data
      ELSE LET wanted == UNION {SectionMap(s) : s \in NamedSections}
               kept == OwnKeySet(response.data) \cap wanted
           IN IF kept = {} THEN shaped = response.data
              ELSE /\ shaped.t = "obj"
                   /\ OwnKeySet(shaped) = kept
                   /\ Len(shaped.kv) = Cardinality(kept)
                   /\ \A k \in kept : GetProp(shaped, k) = GetProp(response.data, k)

----------------------------------------------------------------------------
(* Properties of the dispatch, checked under Spec *)

\* a tools/call of a ticker-requiring tool whose arguments lack the ticker
TickerMissing ==
  /\ request # NoCall
  /\ request.method = "tools/call"
  /\ request.params
  /\ tool \in TickerTools
  /\ NoTicker(args)

\* the reply reports a failure: a tool result marked isError or an error member
Failed(r) == r.isError \/ r.member = "error"

\* C15: for each of the 8 tools whose schema requires ticker, an invocation
\* whose arguments lack a ticker (absent or empty) fails with the error
\* 'ticker parameter is required' before any upstream request: the invocation
\* makes no upstream request and has no other effect.
C15_TickerRequired ==
  /\ Cardinality(TickerTools) = 8
  /\ TickerMissing =>
       /\ pc = "replied"
       /\ requests = 0
       /\ Failed(reply)
       /\ reply.text.s \in {<<"ticker parameter is required">>,
                            <<"Error: ", "ticker parameter is required">>}
       /\ upstream = NoCall
       /\ response = NoCall
       /\ shaped = NoCall
       /\ locals = NoLocals

C15_Witness ==
  /\ TickerMissing
  /\ pc = "replied"
  /\ tool = "get_historical_lobbying"
  /\ args.ticker = Some(<<>>)
  /\ transport = "stdio"
  /\ reply.isError
  /\ requests = 0

\* a tools/call of a registered tool has been answered
ToolAnswered ==
  /\ pc = "replied"
  /\ request.method = "tools/call"
  /\ request.params
  /\ tool \in ToolNames

\* the reply the dispatch gives for a structured error envelope value
IsEnvelopeErrorReply(r) ==
  /\ r.member = "result"
  /\ r.isError
  /\ Len(r.text.s) >= 4
  /\ r.text.s[1] = "Error: "
  /\ r.text.s[Len(r.text.s) - 2] = " (Status: "

\* C16: every failure of a tool invocation (upstream failure or missing
\* required parameter) is returned by the tool handler as a structured error
\* envelope value; no tool handler and no shaper stage throws an exception
\* into the dispatch layer.
C16_FailuresAreValues ==
  /\ (pc \in {"returned", "replied"} /\ requests = 1) => ~IsThrown(shaped)
  /\ (ToolAnswered /\ TickerMissing) => IsEnvelopeErrorReply(reply)

\* a request to POST /message has been answered
HttpAnswered == pc = "replied" /\ transport = "http" /\ request.params

\* the JSON-RPC error reply to the request, sent with HTTP 200
IsRpcErrorReply(message) ==
  /\ reply.httpStatus = 200
  /\ reply.member = "error"
  /\ ~reply.isError
  /\ reply.code < 0
  /\ reply.text = Str(message)
  /\ reply.id = request.id

\* C17: on the HTTP transport a tools/call naming an unregistered tool, a
\* tools/call of a ticker-requiring tool without ticker, a prompts/get naming an
\* unknown prompt, a resources/read of an unknown URI and a request with an
\* unknown method each get an HTTP 200 reply that is a JSON-RPC response with
\* an error member (no result member) whose message identifies the failure,
\* echoing the request id.
C17_HttpErrors ==
  HttpAnswered =>
    /\ (request.method = "tools/call" /\ tool \notin ToolNames) =>
         IsRpcErrorReply(<<"Unknown tool: ", tool>>)
    /\ TickerMissing => IsRpcErrorReply(<<"ticker parameter is required">>)
    /\ (request.method = "prompts/get" /\ tool \notin PromptNames) =>
         IsRpcErrorReply(<<"Unknown prompt: ", tool>>)
    /\ (request.method = "resources/read" /\ tool \notin ResourceUris) =>
         IsRpcErrorReply(<<"Unknown resource: ", tool>>)
    /\ (request.method \notin PlainMethods
                              \cup {"tools/call", "prompts/get", "resources/read"}) =>
         IsRpcErrorReply(<<"Unknown method: ", request.method>>)

C17_Witness ==
  /\ HttpAnswered
  /\ TickerMissing
  /\ tool = "get_ticker_data"
  /\ request.id = Some(2)
  /\ reply.id = Some(2)
  /\ reply.code = -32603
  /\ reply.member = "error"

\* what each transport answers to the call at hand, given the handler's outcome
StdioOutcome ==
  IF tool \notin ToolNames THEN StdioToolReply(Thrown(<<"Unknown tool: ", tool>>))
  ELSE IF tool \in TickerTools /\ NoTicker(args)
    THEN StdioToolReply(Thrown(<<"ticker parameter is required">>))
  ELSE StdioToolReply(shaped)

HttpOutcome ==
  IF tool \notin ToolNames THEN RpcError(-32601, <<"Unknown tool: ", tool>>, 200)
  ELSE IF tool \in TickerTools /\ NoTicker(args)
    THEN HttpToolReply(Thrown(<<"ticker parameter is required">>))
  ELSE HttpToolReply(shaped)

\* the reply given, and the reply of the other transport to the same call
StdioSide == IF transport = "stdio" THEN reply ELSE StdioOutcome

HttpSide == IF transport = "http" THEN reply ELSE HttpOutcome

\* a tools/call has been answered
CallAnswered == pc = "replied" /\ request.method = "tools/call" /\ request.params

\* the handler returned a value to the dispatch
HandlerReturned == tool \in ToolNames /\ requests = 1 /\ ~IsThrown(shaped)

\* C18 (as claimed): for the same tools/call request and the same upstream
\* response the stdio and the HTTP transport classify the outcome identically
\* (success or error) and return the same content text, also for an unknown
\* tool name and for a handler that throws.
C18_TransportsAgree_AsClaimed ==
  CallAnswered =>
    /\ Failed(StdioSide) = Failed(HttpSide)
    /\ StdioSide.text = HttpSide.text

\* C18 (amended): the two transports classify the outcome identically; when
\* the handler returns a value both return a tool result with the same content
\* text and the same isError mark; for an unknown tool name and for a handler
\* that throws, stdio returns a tool result marked isError with text
\* 'Error: <message>' and HTTP a JSON-RPC error with message '<message>'.
C18_TransportsAgree ==
  CallAnswered =>
    /\ Failed(StdioSide) = Failed(HttpSide)
    /\ IF HandlerReturned
         THEN /\ StdioSide.member = "result"
              /\ HttpSide.member = "result"
              /\ StdioSide.isError = HttpSide.isError
              /\ StdioSide.text = HttpSide.text
         ELSE /\ StdioSide.member = "result"
              /\ StdioSide.isError
              /\ HttpSide.member = "error"
              /\ StdioSide.text.s = <<"Error: ">> \o HttpSide.text.s

C18_Witness ==
  /\ CallAnswered
  /\ HandlerReturned
  /\ transport = "http"
  /\ tool = "get_companies"
  /\ args.mode = Some("compact")
  /\ args.format = None
  /\ ~HasError(upstream)
  /\ upstream.data.t = "arr"
  /\ Len(upstream.data.items) = 3
  /\ reply.text = shaped.data
  /\ reply.text = StdioOutcome.text

\* a tool's handler has returned for a successful upstream request
Succeeded ==
  /\ pc \in {"returned", "replied"}
  /\ request.method = "tools/call"
  /\ tool \in ToolNames
  /\ requests = 1
  /\ ~HasError(upstream)

\* the common response options the caller passed; an absent mode is the tool's
\* own default
RequestedOptions ==
  [mode |-> IF args.mode = None /\ tool \in ShapingTools
              THEN ToolOptions(tool, args).mode ELSE args.mode,
   format |-> args.format,
   fields |-> args.fields, explicitFields |-> Some(args.fields # None),
   page |-> args.page, page_size |-> args.page_size, limit |-> args.limit]

\* C19: every one of the 21 tools supports the common response options: when
\* the caller passes mode, format, fields, page, page_size or limit, the tool's
\* result is the shaper's output for those options applied to the upstream
\* data (fields projects, page / page_size / limit paginate, mode / format
\* render).
C19_CommonOptions ==
  /\ Cardinality(ToolNames) = 21
  /\ (Succeeded /\ args.sections = None) =>
       LET expected == formatResponse(upstream, RequestedOptions)
       IN IF IsThrown(expected) THEN IsThrown(shaped)
          ELSE /\ ~IsThrown(shaped)
               /\ shaped.data = expected.data

\* C20: when a tool call succeeds, the shaped envelope flows back to the
\* caller: the response delivered by the dispatch layer carries the envelope's
\* summary block and, when pagination was applied, its pagination block
\* (current_page, total_pages, has_next, ...) together with data.
C20_EnvelopeFlowsBack ==
  (Succeeded /\ pc = "replied" /\ tool \in ShapingTools /\ ~IsThrown(shaped)) =>
    /\ reply.member = "result"
    /\ ~reply.isError
    /\ "summary" \in DOMAIN shaped
    /\ Includes(reply.text.s, "summary")
    /\ Includes(reply.text.s, "total_items")
    /\ ("pagination" \in DOMAIN shaped) =>
         /\ Includes(reply.text.s, "pagination")
         /\ Includes(reply.text.s, "current_page")
         /\ Includes(reply.text.s, "total_pages")
         /\ Includes(reply.text.s, "has_next")

----------------------------------------------------------------------------
(* Pagination properties, checked under ShaperSpec *)

\* the page size in effect: the one supplied, 50 when none is
SizeInEffect == IF options.page_size = None THEN 50 ELSE The(options.page_size)

\* the page asked for: the one supplied, 1 when none is
PageAsked == IF options.page = None THEN 1 ELSE The(options.page)

\* ceil(n / d), as the least k with k * d >= n
PagesFor(n, d) == CHOOSE k \in 0..n : IsCeil(k, n, d)

\* C21: for array data of post-limit length N and positive integer page_size S,
\* with total_pages = ceil(N / S), the slice returned for a page in
\* 1..total_pages has length S, except on the last page, where it has length
\* N - (total_pages - 1) * S.
C21_SliceLength ==
  (PageBlockCase /\ PageAsked \in 1..PagesFor(PostLimitLength, SizeInEffect)) =>
    Len(locals.paginatedData.items) =
      IF PageAsked < PagesFor(PostLimitLength, SizeInEffect)
        THEN SizeInEffect
        ELSE PostLimitLength - (PagesFor(PostLimitLength, SizeInEffect) - 1) * SizeInEffect

C21_Witness ==
  /\ PageBlockCase
  /\ response.data = Rows(5)
  /\ options.page_size = Some(2)
  /\ options.page = Some(3)
  /\ options.limit = None
  /\ locals.paginatedData = Arr(<<Row(5)>>)

\* C22: when page_size is supplied as 0 the default of 50 is not substituted
\* (the default applies only when page_size is absent): the shaper keeps the
\* supplied page_size, so that total_pages of a non-empty array is not the
\* page count for a page size of 50, and nothing is thrown.
C22_ZeroPageSizeKept ==
  (/\ pc = "done"
   /\ ~HasError(response)
   /\ PaginationTriggered(options)
   /\ locals.processedData.t = "arr"
   /\ options.page_size = Some(0)) =>
    /\ ~IsThrown(shaped)
    /\ shaped.pagination.page_size = 0
    /\ (Len(locals.limitedData.items) > 0) =>
         ~IsCeil(shaped.pagination.total_pages, Len(locals.limitedData.items), 50)

\* the pagination stage ran on data that is not an array
NonArrayPaged ==
  /\ Transformed
  /\ PaginationTriggered(options)
  /\ response.data.t # "arr"

\* C23: when the pagination stage is triggered and data is not an array, the
\* data is left untouched and the pagination block is current_page = 1,
\* page_size = 1, total_items = 1, total_pages = 1, has_next = false,
\* has_previous = false, whatever page, page_size and limit were supplied;
\* field projection leaves non-array data unmodified too.
C23_NonArrayUntouched ==
  /\ NonArrayPaged =>
       /\ locals.paginatedData = response.data
       /\ shaped.pagination = [current_page |-> 1, page_size |-> 1, total_items |-> 1,
                               total_pages |-> 1, has_next |-> FALSE, has_previous |-> FALSE]
       /\ (options.mode \in {None, Some("detailed")} /\ options.format \in {None, Some("json")}) =>
            shaped.data = response.data
  /\ (pc = "done" /\ ~HasError(response) /\ response.data.t # "arr") =>
       locals.processedData = response.data

C23_Witness ==
  /\ NonArrayPaged
  /\ response.data.t = "obj"
  /\ options.page = Some(3)
  /\ options.page_size = Some(2)
  /\ options.limit = Some(1)
  /\ options.mode = None
  /\ shaped.data = response.data
  /\ shaped.pagination.total_pages = 1


\* the shaper ran in detailed mode and json format with no other option, on an
\* array of objects
DetailedJsonCase ==
  /\ Transformed
  /\ options.mode = Some("detailed")
  /\ options.format \in {None, Some("json")}
  /\ options.fields = None
  /\ options.page = None /\ options.page_size = None /\ options.limit = None
  /\ response.data.t = "arr"
  /\ \A i \in 1..Len(response.data.items) : response.data.items[i].t = "obj"

\* C24: with mode detailed, format json and no fields, page, page_size or
\* limit, formatResponse returns the input data unchanged, and applying it
\* again to its own output returns the same data, for any array of objects.
C24_DetailedJsonIdentity ==
  DetailedJsonCase =>
    /\ shaped.data = response.data
    /\ ~IsThrown(formatResponse(shaped, options))
    /\ formatResponse(shaped, options).data = shaped.data

C24_Witness ==
  /\ DetailedJsonCase
  /\ Len(response.data.items) = 2
  /\ options.format = Some("json")
  /\ shaped.data = response.data


----------------------------------------------------------------------------
(* The upstream request of a tool invocation, checked under Spec *)

\* the call at hand passed the registry lookup and the handler's parameter test
PassedValidation == tool \in ToolNames /\ ~(tool \in TickerTools /\ NoTicker(args))

\* the handler's result is an error envelope carrying the upstream failure:
\* the client's envelope itself, or the shaper's {data: {error, status}}
ReportsFailure(result) ==
  \/ result = upstream
  \/ /\ DOMAIN result = {"data"}
     /\ result.data = Obj(<< <<"error", Str(upstream.error)>>,
                             <<"status", Num(upstream.status)>> >>)

\* C25: a tool invocation that passes validation issues exactly one upstream
\* request and waits for it; no second request is issued and a failed request
\* is never retried: the failure is reported at once, as an error envelope.
C25_OneRequestNoRetry ==
  /\ requests <= 1
  /\ (PassedValidation /\ pc # "idle") => requests = 1
  /\ (pc = "resolved" /\ outcome.kind = "rejected") => HasError(response)
  /\ (pc \in {"returned", "replied"} /\ requests = 1 /\ outcome.kind = "rejected") =>
       /\ ~IsThrown(shaped)
       /\ ReportsFailure(shaped)

C25_Witness ==
  /\ pc = "replied"
  /\ requests = 1
  /\ tool = "get_companies"
  /\ outcome.kind = "rejected"
  /\ outcome.status = None
  /\ shaped.data = Obj(<< <<"error", Str(<<"Unknown error">>)>>, <<"status", Num(500)>> >>)

\* makeRequest has resolved for the call at hand
Resolved == requests = 1 /\ pc \in {"resolved", "returned", "replied"}

\* C26: makeRequest never throws: a 2xx response, a non-2xx response, a timeout
\* and a network failure all resolve to an envelope that has a status and
\* exactly one of data and error, the status being the upstream HTTP status
\* when a response exists and 500 otherwise.
C26_MakeRequestNeverThrows ==
  Resolved =>
    /\ ~IsThrown(upstream)
    /\ "status" \in DOMAIN upstream
    /\ ("data" \in DOMAIN upstream) # ("error" \in DOMAIN upstream)
    /\ outcome.kind = "ok" =>
         /\ upstream.data = outcome.body
         /\ upstream.status = The(outcome.status)
    /\ outcome.kind = "rejected" =>
         /\ HasError(upstream)
         /\ upstream.status = IF outcome.status = None THEN 500 ELSE The(outcome.status)

C26_Witness ==
  /\ pc = "resolved"
  /\ outcome.kind = "rejected"
  /\ outcome.status = Some(404)
  /\ upstream = [error |-> <<"Request failed with status code 404">>, status |-> 404]

\* C27: the raw envelope returned by the upstream client is never mutated
\* between its creation and the end of shaping: no tool handler and no shaper
\* stage assigns to the envelope or to its data, so the envelope the handler
\* holds stays the one the client returned.
C27_EnvelopeNeverMutated ==
  Resolved => response = upstream


----------------------------------------------------------------------------
(* Concurrent tool invocations on the HTTP transport: the async handlers of
   app.post('/message') interleave at their await. Each variable holds one
   value per invocation, the handler's own parameters and locals; requests
   counts the upstream requests of all invocations. *)

Invocations == {1, 2}

\* the tools called concurrently: a shaping tool, the tool that assigns to its
\* envelope, a pass-through tool and a name that is not registered
ConcurrentNames ==
  {"get_companies", "get_ticker_data", "get_recent_legislation", "no_such_tool"}

ConcurrentArgs ==
  [mode : {None, Some("compact")}, format : {None}, fields : {None},
   page : {None}, page_size : {None}, limit : {None},
   ticker : {None, Some(<<"AAPL">>)},
   sections : {None, Some(<<"basic">>)}]

\* what the upstream answers: an object, an array, a rejection
ConcurrentOutcomes ==
  {o \in Outcomes : \/ o.kind = "ok" /\ (o.body.t = "obj" \/ o.body = Rows(3))
                    \/ o.status = Some(401)}

ConcurrentInit ==
  /\ pc = [i \in Invocations |-> "idle"]
  /\ request = [i \in Invocations |-> NoCall]
  /\ tool = [i \in Invocations |-> "none"]
  /\ args = [i \in Invocations |-> NoCall]
  /\ transport = "http"
  /\ requests = 0
  /\ upstream = [i \in Invocations |-> NoCall]
  /\ outcome = [i \in Invocations |-> NoCall]
  /\ response = [i \in Invocations |-> NoCall]
  /\ options = [i \in Invocations |-> NoCall]
  /\ locals = [i \in Invocations |-> NoLocals]
  /\ shaped = [i \in Invocations |-> NoCall]
  /\ reply = [i \in Invocations |-> NoCall]

\* request i arrives: the tool is looked up and its handler runs up to its await
ConcurrentCall(i) ==
  /\ pc[i] = "idle"
  /\ \E name \in ConcurrentNames, a \in ConcurrentArgs :
       /\ request' = [request EXCEPT ![i] = [method |-> "tools/call", id |-> Some(i),
                                             params |-> TRUE]]
       /\ tool' = [tool EXCEPT ![i] = name]
       /\ args' = [args EXCEPT ![i] = a]
       /\ IF name \notin ToolNames
            THEN /\ reply' = [reply EXCEPT ![i] =
                                Sent(RpcError(-32601, <<"Unknown tool: ", name>>, 200), Some(i))]
                 /\ pc' = [pc EXCEPT ![i] = "replied"]
                 /\ UNCHANGED requests
            ELSE IF name \in TickerTools /\ NoTicker(a)
                   THEN /\ reply' = [reply EXCEPT ![i] =
                                       Sent(HttpToolReply(Thrown(<<"ticker parameter is required">>)),
                                            Some(i))]
                        /\ pc' = [pc EXCEPT ![i] = "replied"]
                        /\ UNCHANGED requests
                   ELSE /\ requests' = requests + 1
                        /\ pc' = [pc EXCEPT ![i] = "awaiting"]
                        /\ UNCHANGED reply
  /\ UNCHANGED <<transport, upstream, outcome, response, options, locals, shaped>>

\* a wrong handler: the envelope is kept in one place that every invocation reads
ConcurrentResolveSharedEnvelope(i) ==
  /\ pc[i] = "awaiting"
  /\ \E o \in ConcurrentOutcomes :
       /\ outcome' = [outcome EXCEPT ![i] = o]
       /\ response' = [j \in Invocations |-> makeRequest(o)]
       /\ upstream' = [upstream EXCEPT ![i] = makeRequest(o)]
  /\ pc' = [pc EXCEPT ![i] = "resolved"]
  /\ UNCHANGED <<request, tool, args, transport, requests, options, locals, shaped, reply>>

\* the upstream exchange of invocation i ends and its makeRequest resolves
ConcurrentResolve(i) ==
  /\ pc[i] = "awaiting"
  /\ \E o \in ConcurrentOutcomes :
       /\ outcome' = [outcome EXCEPT ![i] = o]
       /\ response' = [response EXCEPT ![i] = makeRequest(o)]
       /\ upstream' = [upstream EXCEPT ![i] = makeRequest(o)]
  /\ pc' = [pc EXCEPT ![i] = "resolved"]
  /\ UNCHANGED <<request, tool, args, transport, requests, options, locals, shaped, reply>>

\* the rest of the handler of invocation i, after its await
ConcurrentReturn(i) ==
  /\ pc[i] = "resolved"
  /\ shaped' = [shaped EXCEPT ![i] = HandlerResult(tool[i], args[i], response[i])]
  /\ LET input == ShaperInput(tool[i], args[i], response[i])
     IN IF tool[i] \in PassThroughTools \/ IsThrown(input)
          THEN UNCHANGED <<response, options, locals>>
          ELSE /\ response' = [response EXCEPT ![i] = input]
               /\ options' = [options EXCEPT ![i] = ToolOptions(tool[i], args[i])]
               /\ locals' = [locals EXCEPT ![i] = LocalsOf(input, ToolOptions(tool[i], args[i]))]
  /\ pc' = [pc EXCEPT ![i] = "returned"]
  /\ UNCHANGED <<request, tool, args, transport, requests, upstream, outcome, reply>>

\* the result of invocation i becomes its reply
ConcurrentReply(i) ==
  /\ pc[i] = "returned"
  /\ reply' = [reply EXCEPT ![i] = Sent(HttpToolReply(shaped[i]), request[i].id)]
  /\ pc' = [pc EXCEPT ![i] = "replied"]
  /\ UNCHANGED <<request, tool, args, transport, requests, upstream, outcome, response, options, locals, shaped>>

ConcurrentNext ==
  \E i \in Invocations :
    \/ ConcurrentCall(i)
    \/ ConcurrentResolve(i)
    \/ ConcurrentReturn(i)
    \/ ConcurrentReply(i)

ConcurrentSpec == ConcurrentInit /\ [][ConcurrentNext]_vars

\* what invocation i returns by its own arguments and its own upstream response
OwnResult(i) == HandlerResult(tool[i], args[i], makeRequest(outcome[i]))

\* the handler of invocation i has returned
Returned(i) == pc[i] \in {"returned", "replied"} /\ outcome[i] # NoCall

\* the result and the reply of every invocation are those of its own call
OwnResults ==
  \A i \in Invocations :
    /\ Returned(i) => shaped[i] = OwnResult(i)
    /\ (Returned(i) /\ pc[i] = "replied") =>
         reply[i] = Sent(HttpToolReply(OwnResult(i)), Some(i))
    /\ (pc[i] = "replied" /\ outcome[i] = NoCall) =>
         reply[i] = IF tool[i] \notin ToolNames
                      THEN Sent(RpcError(-32601, <<"Unknown tool: ", tool[i]>>, 200), Some(i))
                      ELSE Sent(RpcError(-32603, <<"ticker parameter is required">>, 200), Some(i))

\* everything invocation i holds
StateOf(i) ==
  <<pc[i], request[i], tool[i], args[i], upstream[i], outcome[i], response[i], options[i],
    locals[i], shaped[i], reply[i]>>

\* a step leaves what the other invocation holds as it is
OwnStateOnly ==
  \E i \in Invocations : \A j \in Invocations \ {i} : StateOf(j)' = StateOf(j)

\* C28: for any interleaving of concurrently running tool invocations, the
\* result of each invocation depends only on its own arguments and its own
\* upstream response, and no invocation reads or writes state written by
\* another. (The tool, prompt and resource tables are constants: ToolNames,
\* PromptNames, ResourceUris.)
C28_InvocationsIndependent == []OwnResults /\ [][OwnStateOnly]_vars

C28_Witness ==
  /\ pc[1] = "returned"
  /\ pc[2] = "resolved"
  /\ tool[1] = "get_ticker_data"
  /\ tool[2] = "get_companies"
  /\ outcome[1] # outcome[2]
  /\ response[1] # upstream[1]
  /\ shaped[1] = OwnResult(1)


----------------------------------------------------------------------------
(* The page cap and the page partition, checked under ShaperSpec *)

\* the pagination stage ran on an array
ArrayPaged ==
  /\ Transformed
  /\ PaginationTriggered(options)
  /\ locals.processedData.t = "arr"

\* the page size in effect: 50 when page_size is not supplied, else the size
\* the pagination block reports
EffectivePageSize ==
  IF options.page_size = None THEN 50 ELSE shaped.pagination.page_size

\* the arguments of a call that passes nothing
NoArguments ==
  [mode |-> None, format |-> None, fields |-> None, page |-> None, page_size |-> None,
   limit |-> None, ticker |-> None, sections |-> None]

\* C29: for array data of length N, whenever pagination is triggered the number
\* of returned elements exceeds neither the effective page_size (50 when
\* page_size is not supplied) nor a positive limit: a call that supplies only
\* limit = L > 0 returns the first min(N, L, 50) elements with total_items =
\* min(N, L), so a tool whose default limit exceeds 50 (get_companies, 100)
\* returns at most 50 elements unless page_size is passed.
C29_PageCap ==
  ArrayPaged =>
    LET N == Len(locals.processedData.items)
        returned == locals.paginatedData
    IN /\ Len(returned.items) <= EffectivePageSize
       /\ (options.limit # None /\ The(options.limit) > 0) =>
            Len(returned.items) <= The(options.limit)
       /\ (/\ options.page = None
           /\ options.page_size = None
           /\ options.limit # None
           /\ The(options.limit) > 0) =>
            /\ returned = Prefix(locals.processedData, Min(Min(N, The(options.limit)), 50))
            /\ shaped.pagination.total_items = Min(N, The(options.limit))
       /\ options = ToolOptions("get_companies", NoArguments) =>
            /\ shaped.data = Prefix(response.data, 50)
            /\ shaped.pagination.total_items = Min(N, 100)

C29_Witness ==
  /\ ArrayPaged
  /\ response.data = Rows(120)
  /\ options = ToolOptions("get_companies", NoArguments)
  /\ shaped.data = Rows(50)
  /\ shaped.pagination.total_items = 100

\* the result of applyPagination for page k, all else as in the call at hand
PageOf(k) == applyPagination(locals.processedData, [options EXCEPT !.page = Some(k)])

RECURSIVE PagesUpTo(_)
\* the slices of pages 1..k, one after the other
PagesUpTo(k) == IF k = 0 THEN <<>> ELSE PagesUpTo(k - 1) \o PageOf(k).data.items

\* the elements of a sequence
ElementsOf(s) == {s[i] : i \in 1..Len(s)}

\* no element occurs twice in the array
Distinct(s) == \A i, j \in 1..Len(s) : s[i] = s[j] => i = j

\* C30: for array data, a fixed limit and a fixed positive integer page_size,
\* the slices returned for pages 1..total_pages are pairwise disjoint
\* positional ranges whose concatenation in page order is the limit-truncated
\* array, and every page greater than total_pages returns an empty array with
\* has_next = false.
C30_PagesPartition ==
  PageBlockCase =>
    LET S == SizeInEffect
        N == PostLimitLength
        limited == locals.limitedData.items
        total_pages == shaped.pagination.total_pages
    IN /\ total_pages = PagesFor(N, S)
       /\ PageAsked >= 1 =>
            locals.paginatedData.items =
              SubSeq(limited, (PageAsked - 1) * S + 1, Min(PageAsked * S, N))
       /\ \A k \in 1..total_pages :
            PageOf(k).data.items = SubSeq(limited, (k - 1) * S + 1, Min(k * S, N))
       /\ Distinct(limited) =>
            \A j, k \in 1..total_pages :
              j # k => ElementsOf(PageOf(j).data.items) \cap ElementsOf(PageOf(k).data.items) = {}
       /\ PagesUpTo(total_pages) = limited
       /\ PageAsked > total_pages =>
            /\ locals.paginatedData.items = <<>>
            /\ ~shaped.pagination.has_next
       /\ \A k \in (total_pages + 1)..(total_pages + MaxPage) :
            /\ PageOf(k).data.items = <<>>
            /\ ~PageOf(k).pagination.has_next

C30_Witness ==
  /\ PageBlockCase
  /\ response.data = Rows(5)
  /\ options.limit = Some(4)
  /\ options.page_size = Some(3)
  /\ options.page = Some(2)
  /\ locals.paginatedData = Arr(<<Row(4)>>)
  /\ PagesUpTo(2) = Rows(4).items
  /\ PageOf(3).data = Arr(<<>>)

\* a page beyond the last one was asked for
C30_WitnessBeyond ==
  /\ PageBlockCase
  /\ response.data = Rows(2)
  /\ options.page_size = Some(2)
  /\ options.page = Some(3)
  /\ shaped.data = Arr(<<>>)

====
